---- MODULE Spec2Model ----
(***************************************************************************)
(* Model of the Sense HAT driver: the RGB565 colour codec, the orientation *)
(* maps built by rotateMatrix, and the LED-matrix operations that address  *)
(* the framebuffer device through them.                                    *)
(***************************************************************************)
EXTENDS Integers, Sequences, FiniteSets, TLC

VARIABLES
    fb,          \* framebuffer device contents, one byte per offset 0..127
    Rotation,    \* SenseHat.Rotation
    PixMap,      \* SenseHat.PixMap: rotation -> 8x8 grid of physical cell indices
    last,        \* the most recent matrix call since Rotation was assigned
    prev,        \* the call before it, when that was a successful write; else NoCall
    nWrites,     \* number of calls that changed the framebuffer so far
    openHandles, \* framebuffer handles opened by returned calls and still open
    codec,       \* codec run: input, packed word, unpacked colour, re-packed word
    rot,         \* rotation run: original grid, current grid, degrees applied
    sensor,      \* tcs3472x.go ColourSensor: device registers and the latest call
    mock         \* part_003 ColourSensor: struct fields, fixture and the latest call

vars == <<fb, Rotation, PixMap, last, prev, nWrites, openHandles, codec, rot,
          sensor, mock>>

sensorVars == <<sensor, mock>>

matrixVars == <<fb, Rotation, PixMap, last, prev, nWrites, openHandles>>

----------------------------------------------------------------------------
(* Fixed-width integer arithmetic of the Go code.                          *)

\* a & mask, for the masks of the codec: 0x1F and 0x3F, each of the form
\* 2^k - 1, so the result is a modulo 2^k
BitAnd(a, mask) == a % (mask + 1)

\* a | b, for the operands of the codec: bit fields that have no bit in
\* common (a 5- or 6-bit field shifted above the field it is joined to, or
\* the high bits of a channel above its replicated low bits), so that no
\* carry occurs and the result is a + b
BitOr(a, b) == a + b

Shr(a, n) == a \div (2 ^ n)

\* uint16 << n
Shl16(a, n) == (a * (2 ^ n)) % 65536

\* uint8(x)
ToUint8(x) == x % 256

Abs(x) == IF x < 0 THEN -x ELSE x

----------------------------------------------------------------------------
(* Colour codec.                                                           *)

UInt8Max == 255

UInt16Max == 65535

RGBColour == [R : 0..UInt8Max, G : 0..UInt8Max, B : 0..UInt8Max]

Colour(r, g, b) == [R |-> r, G |-> g, B |-> b]

\* A plausible slip: red shifted by 2 (the green shift) instead of 3.
PackRGB565_RedShift2(rgb) ==
    LET r == BitAnd(Shr(rgb.R, 2), 31)
        g == BitAnd(Shr(rgb.G, 2), 63)
        b == BitAnd(Shr(rgb.B, 3), 31)
    IN  BitOr(BitOr(Shl16(r, 11), Shl16(g, 5)), b)

PackRGB565(rgb) ==
    LET r == BitAnd(Shr(rgb.R, 3), 31)
        g == BitAnd(Shr(rgb.G, 2), 63)
        b == BitAnd(Shr(rgb.B, 3), 31)
    IN  BitOr(BitOr(Shl16(r, 11), Shl16(g, 5)), b)

\* A plausible slip: the channels taken in BGR order.
UnpackRGB565_BGR(rgb565) ==
    LET r == BitAnd(rgb565, 31)
        g == BitAnd(Shr(rgb565, 5), 63)
        b == BitAnd(Shr(rgb565, 11), 31)
        r8 == BitOr(Shl16(r, 3), Shr(r, 2))
        g8 == BitOr(Shl16(g, 2), Shr(g, 4))
        b8 == BitOr(Shl16(b, 3), Shr(b, 2))
    IN  Colour(ToUint8(r8), ToUint8(g8), ToUint8(b8))

UnpackRGB565(rgb565) ==
    LET r == BitAnd(Shr(rgb565, 11), 31)
        g == BitAnd(Shr(rgb565, 5), 63)
        b == BitAnd(rgb565, 31)
        r8 == BitOr(Shl16(r, 3), Shr(r, 2))
        g8 == BitOr(Shl16(g, 2), Shr(g, 4))
        b8 == BitOr(Shl16(b, 3), Shr(b, 2))
    IN  Colour(ToUint8(r8), ToUint8(g8), ToUint8(b8))

----------------------------------------------------------------------------
(* Codec runs: a colour is packed, unpacked and packed again; a 16-bit     *)
(* word is unpacked and packed again.                                      *)

NoValue == [none |-> TRUE]

\* Every value of each channel, against low, middle and high values of the others.
CodecColours ==
    UNION { { Colour(v, v, v), Colour(v, 0, UInt8Max), Colour(0, v, 7),
              Colour(UInt8Max, UInt8Max - v, v), Colour(130, UInt8Max, v),
              Colour(UInt8Max - v, v, 100) } : v \in 0..UInt8Max }

CodecIdle == [kind |-> "idle", step |-> 0, colour |-> NoValue, word |-> NoValue,
              unpacked |-> NoValue, repacked |-> NoValue]

CodecInit ==
    codec \in
        { [kind |-> "colour", step |-> 0, colour |-> c, word |-> NoValue,
           unpacked |-> NoValue, repacked |-> NoValue] : c \in CodecColours }
        \cup
        { [kind |-> "word", step |-> 1, colour |-> NoValue, word |-> w,
           unpacked |-> NoValue, repacked |-> NoValue] : w \in 0..UInt16Max }

CodecPack ==
    /\ codec.kind = "colour"
    /\ codec.step = 0
    /\ codec' = [codec EXCEPT !.step = 1, !.word = PackRGB565(codec.colour)]

CodecUnpack ==
    /\ codec.step = 1
    /\ codec' = [codec EXCEPT !.step = 2, !.unpacked = UnpackRGB565(codec.word)]

CodecRepack ==
    /\ codec.step = 2
    /\ codec' = [codec EXCEPT !.step = 3, !.repacked = PackRGB565(codec.unpacked)]

----------------------------------------------------------------------------
(* Orientation maps.  A grid is a function row -> column -> value with     *)
(* rows and columns numbered from 0, as the Go slices are.                 *)

N == 8

Index == 0..(N - 1)

Grid(rows) == [i \in Index |-> [j \in Index |-> rows[i + 1][j + 1]]]

\* The loops "for i, for j: result[Dest(i, j)] = m[i][j]" over a zeroed
\* n x n result: a cell no (i, j) is sent to stays 0, and a cell several
\* are sent to keeps the one the loops assign last.
Scatter(m, n, Dest(_, _)) ==
    [a \in 0..(n - 1) |-> [b \in 0..(n - 1) |->
        LET from == { ij \in (0..(n - 1)) \X (0..(n - 1)) : Dest(ij[1], ij[2]) = <<a, b>> }
        IN  IF from = {} THEN 0
            ELSE LET lst == CHOOSE ij \in from :
                                \A o \in from : o[1] * n + o[2] <= ij[1] * n + ij[2]
                 IN  m[lst[1]][lst[2]]]]

\* A plausible slip: the 270 case written like a transposition.
rotateMatrix_Transpose270(m, degrees) ==
    LET n == Cardinality(DOMAIN m)
    IN  CASE degrees = 90  -> Scatter(m, n, LAMBDA i, j : <<j, n - i - 1>>)
          [] degrees = 180 -> Scatter(m, n, LAMBDA i, j : <<n - i - 1, n - j - 1>>)
          [] degrees = 270 -> Scatter(m, n, LAMBDA i, j : <<j, i>>)
          [] OTHER         -> m

\* A plausible slip: the 90 case indexed by j twice, so cells collide.
rotateMatrix_Collide90(m, degrees) ==
    LET n == Cardinality(DOMAIN m)
    IN  CASE degrees = 90  -> Scatter(m, n, LAMBDA i, j : <<j, n - j - 1>>)
          [] degrees = 180 -> Scatter(m, n, LAMBDA i, j : <<n - i - 1, n - j - 1>>)
          [] degrees = 270 -> Scatter(m, n, LAMBDA i, j : <<n - j - 1, i>>)
          [] OTHER         -> m

rotateMatrix(m, degrees) ==
    LET n == Cardinality(DOMAIN m)
    IN  CASE degrees = 90  -> Scatter(m, n, LAMBDA i, j : <<j, n - i - 1>>)
          [] degrees = 180 -> Scatter(m, n, LAMBDA i, j : <<n - i - 1, n - j - 1>>)
          [] degrees = 270 -> Scatter(m, n, LAMBDA i, j : <<n - j - 1, i>>)
          [] OTHER         -> m

pixMap0 ==
    Grid(<< <<0, 1, 2, 3, 4, 5, 6, 7>>,
            <<8, 9, 10, 11, 12, 13, 14, 15>>,
            <<16, 17, 18, 19, 20, 21, 22, 23>>,
            <<24, 25, 26, 27, 28, 29, 30, 31>>,
            <<32, 33, 34, 35, 36, 37, 38, 39>>,
            <<40, 41, 42, 43, 44, 45, 46, 47>>,
            <<48, 49, 50, 51, 52, 53, 54, 55>>,
            <<56, 57, 58, 59, 60, 61, 62, 63>> >>)

\* The PixMap that initializePixMap stores.
initializePixMap ==
    LET pixMap90  == rotateMatrix(pixMap0, 90)
        pixMap180 == rotateMatrix(pixMap0, 180)
        pixMap270 == rotateMatrix(pixMap0, 270)
    IN  [r \in {0, 90, 180, 270} |->
            CASE r = 0   -> pixMap0
              [] r = 90  -> pixMap90
              [] r = 180 -> pixMap180
              [] r = 270 -> pixMap270]

----------------------------------------------------------------------------
(* Rotation runs: rotateMatrix applied repeatedly to a grid.               *)

MaxRotSteps == 4

RotDegrees == {90, 180, 270}

RotGrids ==
    { pixMap0,
      [i \in Index |-> [j \in Index |-> j * N + i]],
      [i \in Index |-> [j \in Index |-> i * i + 3 * j]],
      [i \in Index |-> [j \in Index |-> IF i = j THEN 1 ELSE 0]],
      [i \in Index |-> [j \in Index |-> ((i * N + j) * 7 + 5) % 64]] }

RotIdle == [orig |-> <<>>, cur |-> <<>>, steps |-> <<>>]

RotInit == rot \in { [orig |-> g, cur |-> g, steps |-> <<>>] : g \in RotGrids }

RotateStep(d) ==
    /\ Len(rot.steps) < MaxRotSteps
    /\ rot' = [rot EXCEPT !.cur = rotateMatrix(rot.cur, d),
                          !.steps = Append(rot.steps, d)]

----------------------------------------------------------------------------
(* The framebuffer device and the record of a matrix call.                 *)

\* 64 cells of 2 bytes each
FbBytes == 64 * 2

Offsets == 0..(FbBytes - 1)

\* binary.Read(file, binary.LittleEndian, &rgb565) at the current offset
ReadWord(fbv, offset) == fbv[offset] + 256 * fbv[offset + 1]

\* A plausible slip: the word written high byte first.
WriteWord_BigEndian(fbv, offset, w) ==
    [fbv EXCEPT ![offset] = w \div 256, ![offset + 1] = w % 256]

\* binary.Write(file, binary.LittleEndian, rgb565) at the current offset
WriteWord(fbv, offset, w) ==
    [fbv EXCEPT ![offset] = w % 256, ![offset + 1] = w \div 256]

NoIO == [opens |-> 0, opened |-> 0, closes |-> 0,
         seeks |-> <<>>, reads |-> <<>>, writes |-> <<>>]

\* os.OpenFile succeeded, and the deferred file.Close() runs at return
OpenedIO == [NoIO EXCEPT !.opens = 1, !.opened = 1, !.closes = 1]

NoFault == [kind |-> "none", at |-> 0]

Fault(kind, at) == [kind |-> kind, at |-> at]

Black == Colour(0, 0, 0)

Outcome(err, result, io, fbv) == [err |-> err, result |-> result, io |-> io, fb |-> fbv]

NoCall == [op |-> "none", x |-> 0, y |-> 0, colour |-> NoValue, pixels |-> NoValue,
           args |-> NoValue, rot |-> 0, err |-> "none", result |-> NoValue, io |-> NoIO]

SupportedRotations == {0, 90, 180, 270}

----------------------------------------------------------------------------
(* MatrixGetPixel and MatrixSetPixel.                                      *)

\* A plausible slip: the map indexed [x][y].
MatrixGetPixelCall_XY(fbv, pm, r, x, y, fault) ==
    IF x < 0 \/ x > 7 \/ y < 0 \/ y > 7
    THEN Outcome("OutOfRange", Black, NoIO, fbv)
    ELSE IF fault.kind = "open"
    THEN Outcome("OpenFailed", Black, [NoIO EXCEPT !.opens = 1], fbv)
    ELSE IF r \notin DOMAIN pm
    THEN Outcome("InvalidRotation", Black, OpenedIO, fbv)
    ELSE LET offset == pm[r][x][y] * 2
             ioSeek == [OpenedIO EXCEPT !.seeks = <<offset>>]
             ioRead == [ioSeek EXCEPT !.reads = <<offset>>]
         IN  IF fault.kind = "seek"
             THEN Outcome("SeekFailed", Black, ioSeek, fbv)
             ELSE IF fault.kind = "io"
             THEN Outcome("ReadFailed", Black, ioRead, fbv)
             ELSE Outcome("ok", UnpackRGB565(ReadWord(fbv, offset)), ioRead, fbv)

MatrixGetPixelCall(fbv, pm, r, x, y, fault) ==
    IF x < 0 \/ x > 7 \/ y < 0 \/ y > 7
    THEN Outcome("OutOfRange", Black, NoIO, fbv)
    ELSE IF fault.kind = "open"
    THEN Outcome("OpenFailed", Black, [NoIO EXCEPT !.opens = 1], fbv)
    ELSE IF r \notin DOMAIN pm
    THEN Outcome("InvalidRotation", Black, OpenedIO, fbv)
    ELSE LET offset == pm[r][y][x] * 2
             ioSeek == [OpenedIO EXCEPT !.seeks = <<offset>>]
             ioRead == [ioSeek EXCEPT !.reads = <<offset>>]
         IN  IF fault.kind = "seek"
             THEN Outcome("SeekFailed", Black, ioSeek, fbv)
             ELSE IF fault.kind = "io"
             THEN Outcome("ReadFailed", Black, ioRead, fbv)
             ELSE Outcome("ok", UnpackRGB565(ReadWord(fbv, offset)), ioRead, fbv)

\* A plausible slip: an unsupported rotation falls back on the unrotated map.
MatrixSetPixelCall_DefaultMap(fbv, pm, r, x, y, colour, fault) ==
    IF x < 0 \/ x > 7 \/ y < 0 \/ y > 7
    THEN Outcome("OutOfRange", NoValue, NoIO, fbv)
    ELSE IF fault.kind = "open"
    THEN Outcome("OpenFailed", NoValue, [NoIO EXCEPT !.opens = 1], fbv)
    ELSE LET pixMap == IF r \in DOMAIN pm THEN pm[r] ELSE pm[0]
             offset == pixMap[y][x] * 2
             ioSeek == [OpenedIO EXCEPT !.seeks = <<offset>>]
             rgb565 == PackRGB565(colour)
             ioWrite == [ioSeek EXCEPT !.writes = <<offset>>]
         IN  IF fault.kind = "seek"
             THEN Outcome("SeekFailed", NoValue, ioSeek, fbv)
             ELSE IF fault.kind = "io"
             THEN Outcome("WriteFailed", NoValue, ioWrite, fbv)
             ELSE Outcome("ok", NoValue, ioWrite, WriteWord(fbv, offset, rgb565))

MatrixSetPixelCall(fbv, pm, r, x, y, colour, fault) ==
    IF x < 0 \/ x > 7 \/ y < 0 \/ y > 7
    THEN Outcome("OutOfRange", NoValue, NoIO, fbv)
    ELSE IF fault.kind = "open"
    THEN Outcome("OpenFailed", NoValue, [NoIO EXCEPT !.opens = 1], fbv)
    ELSE IF r \notin DOMAIN pm
    THEN Outcome("InvalidRotation", NoValue, OpenedIO, fbv)
    ELSE LET offset == pm[r][y][x] * 2
             ioSeek == [OpenedIO EXCEPT !.seeks = <<offset>>]
             rgb565 == PackRGB565(colour)
             ioWrite == [ioSeek EXCEPT !.writes = <<offset>>]
         IN  IF fault.kind = "seek"
             THEN Outcome("SeekFailed", NoValue, ioSeek, fbv)
             ELSE IF fault.kind = "io"
             THEN Outcome("WriteFailed", NoValue, ioWrite, fbv)
             ELSE Outcome("ok", NoValue, ioWrite, WriteWord(fbv, offset, rgb565))

----------------------------------------------------------------------------
(* MatrixSetPixels, MatrixGetPixels and Clear.                             *)

\* Offset of logical cell index: row := index / 8, col := index % 8,
\* offset := pmap[row][col] * 2
CellOffset(pmap, index) ==
    LET row == index \div 8
        col == index % 8
    IN  pmap[row][col] * 2

\* The index at which the loop over n cells returns early, n if it does not.
StopIndex(fault, n) ==
    IF fault.kind \in {"seek", "io"} /\ fault.at < n THEN fault.at ELSE n

\* The loop iterations for the indices lo .. hi-1, in order, none of them failing:
\* each seeks to its cell and writes the packed colour there.
RECURSIVE WritePixels(_, _, _, _, _)
WritePixels(fbv, pmap, pixelList, lo, hi) ==
    IF lo >= hi THEN fbv
    ELSE IF lo + 1 = hi
    THEN WriteWord(fbv, CellOffset(pmap, lo), PackRGB565(pixelList[lo + 1]))
    ELSE LET mid == (lo + hi) \div 2
         IN  \* the first half is evaluated to a frame before the second starts
             CHOOSE after \in { WritePixels(before, pmap, pixelList, mid, hi) :
                                 before \in { WritePixels(fbv, pmap, pixelList, lo, mid) } } : TRUE

\* A plausible slip: the error of a failing iteration is kept but the loop
\* goes on ("continue" for "return"), so the later cells are written too.
SetPixelsLoop_SkipFailed(fbv, pmap, pixelList, fault, io) ==
    LET n == Len(pixelList)
        k == StopIndex(fault, n)
        offsets(m) == [i \in 1..m |-> CellOffset(pmap, i - 1)]
        all == [io EXCEPT !.seeks = offsets(n), !.writes = offsets(n)]
    IN  IF k = n
        THEN Outcome("ok", NoValue, all, WritePixels(fbv, pmap, pixelList, 0, n))
        ELSE Outcome(IF fault.kind = "seek" THEN "SeekFailed" ELSE "WriteFailed", NoValue, all,
                     WritePixels(WritePixels(fbv, pmap, pixelList, 0, k),
                                 pmap, pixelList, k + 1, n))

\* "for index, pix := range pixelList": the iterations before the failing one
\* complete, the failing one returns the error, the later ones never run.
SetPixelsLoop(fbv, pmap, pixelList, fault, io) ==
    LET n == Len(pixelList)
        k == StopIndex(fault, n)
        done == WritePixels(fbv, pmap, pixelList, 0, k)
        offsets(m) == [i \in 1..m |-> CellOffset(pmap, i - 1)]
    IN  IF k = n
        THEN Outcome("ok", NoValue, [io EXCEPT !.seeks = offsets(n), !.writes = offsets(n)], done)
        ELSE IF fault.kind = "seek"
        THEN Outcome("SeekFailed", NoValue,
                     [io EXCEPT !.seeks = offsets(k + 1), !.writes = offsets(k)], done)
        ELSE Outcome("WriteFailed", NoValue,
                     [io EXCEPT !.seeks = offsets(k + 1), !.writes = offsets(k + 1)], done)

\* A plausible slip: the device opened before the length is checked.
MatrixSetPixelsCall_OpenFirst(fbv, pm, r, pixelList, fault) ==
    IF fault.kind = "open"
    THEN Outcome("OpenFailed", NoValue, [NoIO EXCEPT !.opens = 1], fbv)
    ELSE IF Len(pixelList) # 64
    THEN Outcome("InvalidLength", NoValue, OpenedIO, fbv)
    ELSE IF r \notin DOMAIN pm
    THEN Outcome("InvalidRotation", NoValue, OpenedIO, fbv)
    ELSE SetPixelsLoop(fbv, pm[r], pixelList, fault, OpenedIO)

MatrixSetPixelsCall(fbv, pm, r, pixelList, fault) ==
    IF Len(pixelList) # 64
    THEN Outcome("InvalidLength", NoValue, NoIO, fbv)
    ELSE IF fault.kind = "open"
    THEN Outcome("OpenFailed", NoValue, [NoIO EXCEPT !.opens = 1], fbv)
    ELSE IF r \notin DOMAIN pm
    THEN Outcome("InvalidRotation", NoValue, OpenedIO, fbv)
    ELSE SetPixelsLoop(fbv, pm[r], pixelList, fault, OpenedIO)

\* A plausible slip: the map indexed [col][row].
GetPixelsLoop_ColumnMajor(fbv, pmap, fault, io) ==
    LET n == 8 * 8
        k == StopIndex(fault, n)
        offset(index) == pmap[index % 8][index \div 8] * 2
        offsets(m) == [i \in 1..m |-> offset(i - 1)]
        pixelList == [i \in 1..n |-> UnpackRGB565(ReadWord(fbv, offset(i - 1)))]
    IN  IF k = n
        THEN Outcome("ok", pixelList, [io EXCEPT !.seeks = offsets(n), !.reads = offsets(n)], fbv)
        ELSE IF fault.kind = "seek"
        THEN Outcome("SeekFailed", <<>>,
                     [io EXCEPT !.seeks = offsets(k + 1), !.reads = offsets(k)], fbv)
        ELSE Outcome("ReadFailed", <<>>,
                     [io EXCEPT !.seeks = offsets(k + 1), !.reads = offsets(k + 1)], fbv)

\* "for row, for col": each iteration seeks to its cell, reads the word and
\* appends the unpacked colour; a failing one returns nil and the error.
GetPixelsLoop(fbv, pmap, fault, io) ==
    LET n == 8 * 8
        k == StopIndex(fault, n)
        offsets(m) == [i \in 1..m |-> CellOffset(pmap, i - 1)]
        pixelList == [i \in 1..n |-> UnpackRGB565(ReadWord(fbv, CellOffset(pmap, i - 1)))]
    IN  IF k = n
        THEN Outcome("ok", pixelList, [io EXCEPT !.seeks = offsets(n), !.reads = offsets(n)], fbv)
        ELSE IF fault.kind = "seek"
        THEN Outcome("SeekFailed", <<>>,
                     [io EXCEPT !.seeks = offsets(k + 1), !.reads = offsets(k)], fbv)
        ELSE Outcome("ReadFailed", <<>>,
                     [io EXCEPT !.seeks = offsets(k + 1), !.reads = offsets(k + 1)], fbv)

MatrixGetPixelsCall(fbv, pm, r, fault) ==
    IF fault.kind = "open"
    THEN Outcome("OpenFailed", <<>>, [NoIO EXCEPT !.opens = 1], fbv)
    ELSE IF r \notin DOMAIN pm
    THEN Outcome("InvalidRotation", <<>>, OpenedIO, fbv)
    ELSE GetPixelsLoop(fbv, pm[r], fault, OpenedIO)

ClearCall(fbv, pm, r, colour, fault) ==
    IF Len(colour) # 0 /\ Len(colour) # 3
    THEN Outcome("InvalidArguments", NoValue, NoIO, fbv)
    ELSE LET c == IF Len(colour) = 0 THEN <<0, 0, 0>> ELSE colour
             colourObj == Colour(c[1], c[2], c[3])
         IN  MatrixSetPixelsCall(fbv, pm, r, <<colourObj>>, fault)

----------------------------------------------------------------------------
(* Inputs of the matrix operations.                                        *)

MaxWrites == 1

\* Pixel coordinates <<x, y>>: a corner, another corner, a cell off every
\* axis of symmetry, and the nearest coordinates outside 0..7 on each side.
Points == { <<0, 0>>, <<7, 0>>, <<3, 5>>, <<-1, 0>>, <<8, 0>>, <<3, -1>>, <<3, 8>> }

PixelColours == {Colour(100, 50, 200)}

\* Values assignable to the Rotation field: the supported ones and 45.
RotationValues == SupportedRotations \cup {45}

\* 64 colours with 64 different packed words
Ramp == [i \in 1..64 |-> Colour(4 * (i - 1), 255 - 4 * (i - 1), i - 1)]

\* A full frame, a list of 63 and a list of 65
PixelLists == {Ramp, SubSeq(Ramp, 1, 63), Append(Ramp, Black)}

ClearArgs == {<<>>, <<255, 130, 7>>, <<100, 50>>}

\* Cell indices at which a seek, read or write of a whole-frame call may fail
FaultAt == {0, 5, 63}

\* The device fails at open, at a seek, or at a read or write ("io").
PixelFaults == {NoFault, Fault("open", 0), Fault("seek", 0), Fault("io", 0)}

FrameFaults ==
    {NoFault, Fault("open", 0)} \cup { Fault(k, at) : k \in {"seek", "io"}, at \in FaultAt }

\* What the display held before the program started: an old frame.
OldFrame == [o \in Offsets |-> (o * 37 + 11) % 256]

----------------------------------------------------------------------------
(* The TCS3472x colour sensor on the I2C bus (tcs3472x.go).                *)

ENABLE_REG == 128

ATIME_REG == 129

CONTROL_REG == 143

CDATA_REG == 148

RDATA_REG == 150

GDATA_REG == 152

BDATA_REG == 154

PON == 1

AEN == 2

ON == BitOr(PON, AEN)

gainLevels == (1 :> 0) @@ (4 :> 1) @@ (16 :> 2) @@ (60 :> 3) @@ (64 :> 3)

\* The registers of the device: the three byte registers the driver writes
\* and the four 16-bit data registers, low byte at the register's address.
ByteRegs == {ENABLE_REG, ATIME_REG, CONTROL_REG}

DataAddrs == CDATA_REG..(BDATA_REG + 1)

\* the device after power-up holding the sample <<clear, red, green, blue>>:
\* disabled, one integration cycle (ATIME 0xFF), gain code 0
Device(sample) ==
    [a \in ByteRegs \cup DataAddrs |->
        IF a = ATIME_REG THEN UInt8Max
        ELSE IF a \in ByteRegs THEN 0
        ELSE LET w == sample[((a - CDATA_REG) \div 2) + 1]
             IN IF (a - CDATA_REG) % 2 = 0 THEN w % 256 ELSE w \div 256]

\* What a call put on the bus and the waits between, in order.
BusTx(w, n, ok) == [kind |-> "tx", w |-> w, n |-> n, ok |-> ok]

BusSleep(us) == [kind |-> "sleep", w |-> <<>>, n |-> us, ok |-> TRUE]

NoBusFault == [at |-> 0, buf |-> "untouched"]

\* the at-th transaction of the call fails; its read buffer is left as it
\* was allocated (zeros) or holds the bytes received before the failure
BusFault(at, buf) == [at |-> at, buf |-> buf]

\* dev.Tx(w, r) as the k-th transaction of a call: w = <<reg, val>> writes a
\* register, w = <<reg>> with a buffer of n bytes reads from reg on.
Tx(regs, w, n, fault, k) ==
    LET ok == fault.at # k
        data == [i \in 1..n |-> regs[w[1] + i - 1]]
    IN [ok |-> ok,
        buf |-> IF ok THEN data
                ELSE IF fault.buf = "partial"
                     THEN [i \in 1..n |-> IF i = 1 THEN data[i] ELSE 0]
                     ELSE [i \in 1..n |-> 0],
        regs |-> IF ok /\ Len(w) = 2 THEN [regs EXCEPT ![w[1]] = w[2]] ELSE regs,
        tx |-> BusTx(w, n, ok)]

devRead8(regs, reg, fault, k) ==
    LET t == Tx(regs, <<reg>>, 1, fault, k)
    IN [val |-> t.buf[1], ok |-> t.ok, tx |-> t.tx]

devRead16(regs, reg, fault, k) ==
    LET t == Tx(regs, <<reg>>, 2, fault, k)
    IN [val |-> BitOr(Shl16(t.buf[2], 8), t.buf[1]), ok |-> t.ok, tx |-> t.tx]

\* The values a call returns (result: the non-error return values in order),
\* what it put on the bus, and the registers after it.
SensorOutcome(err, result, bus, regs) ==
    [err |-> err, result |-> result, bus |-> bus, regs |-> regs]

EnableCall_OneWrite(regs, enable, fault) ==
    LET t == Tx(regs, <<ENABLE_REG, IF enable THEN ON ELSE 0>>, 0, fault, 1)
    IN SensorOutcome(IF t.ok THEN "ok" ELSE "BusError", <<>>, <<t.tx>>, t.regs)

EnableCall(regs, enable, fault) ==
    IF enable
    THEN LET t1 == Tx(regs, <<ENABLE_REG, PON>>, 0, fault, 1)
             t2 == Tx(t1.regs, <<ENABLE_REG, ON>>, 0, fault, 2)
         IN IF ~t1.ok
            THEN SensorOutcome("BusError", <<>>, <<t1.tx>>, t1.regs)
            ELSE SensorOutcome(IF t2.ok THEN "ok" ELSE "BusError", <<>>,
                               <<t1.tx, BusSleep(2400), t2.tx>>, t2.regs)
    ELSE LET t == Tx(regs, <<ENABLE_REG, 0>>, 0, fault, 1)
         IN SensorOutcome(IF t.ok THEN "ok" ELSE "BusError", <<>>, <<t.tx>>, t.regs)

SetGainCall(regs, gain, fault) ==
    IF gain \notin DOMAIN gainLevels
    THEN SensorOutcome("InvalidGain", <<>>, <<>>, regs)
    ELSE LET t == Tx(regs, <<CONTROL_REG, gainLevels[gain]>>, 0, fault, 1)
         IN SensorOutcome(IF t.ok THEN "ok" ELSE "BusError", <<>>, <<t.tx>>, t.regs)

\* order: the order in which this range over the gainLevels map meets its
\* keys; the first key whose level is the register's value is returned
GetGainCall(regs, fault, order) ==
    LET rd == devRead8(regs, CONTROL_REG, fault, 1)
        hits == {i \in 1..Len(order) : gainLevels[order[i]] = rd.val}
    IN IF ~rd.ok THEN SensorOutcome("BusError", <<0>>, <<rd.tx>>, regs)
       ELSE IF hits = {} THEN SensorOutcome("UnknownGain", <<0>>, <<rd.tx>>, regs)
       ELSE SensorOutcome("ok",
                          <<order[CHOOSE i \in hits : \A j \in hits : i <= j]>>,
                          <<rd.tx>>, regs)

SetIntegrationCyclesCall_WriteFirst(regs, cycles, fault) ==
    LET t == Tx(regs, <<ATIME_REG, ToUint8(256 - cycles)>>, 0, fault, 1)
    IN IF cycles < 1 \/ cycles > 256
       THEN SensorOutcome("InvalidIntegrationCycles", <<>>, <<t.tx>>, t.regs)
       ELSE SensorOutcome(IF t.ok THEN "ok" ELSE "BusError", <<>>, <<t.tx>>, t.regs)

SetIntegrationCyclesCall(regs, cycles, fault) ==
    IF cycles < 1 \/ cycles > 256
    THEN SensorOutcome("InvalidIntegrationCycles", <<>>, <<>>, regs)
    ELSE LET t == Tx(regs, <<ATIME_REG, ToUint8(256 - cycles)>>, 0, fault, 1)
         IN SensorOutcome(IF t.ok THEN "ok" ELSE "BusError", <<>>, <<t.tx>>, t.regs)

GetIntegrationCyclesCall_Countdown(regs, fault) ==
    LET rd == devRead8(regs, ATIME_REG, fault, 1)
    IN IF ~rd.ok THEN SensorOutcome("BusError", <<0>>, <<rd.tx>>, regs)
       ELSE SensorOutcome("ok", <<ToUint8(256 - rd.val)>>, <<rd.tx>>, regs)

GetIntegrationCyclesCall(regs, fault) ==
    LET rd == devRead8(regs, ATIME_REG, fault, 1)
    IN IF ~rd.ok THEN SensorOutcome("BusError", <<0>>, <<rd.tx>>, regs)
       ELSE SensorOutcome("ok", <<256 - rd.val>>, <<rd.tx>>, regs)

\* The named results r, g, b, clear start at zero; each read assigns its
\* result before the error is looked at, and a bare return hands back
\* whatever the results hold.
GetRawCall(regs, fault) ==
    LET r == devRead16(regs, RDATA_REG, fault, 1)
        g == devRead16(regs, GDATA_REG, fault, 2)
        b == devRead16(regs, BDATA_REG, fault, 3)
        c == devRead16(regs, CDATA_REG, fault, 4)
    IN IF ~r.ok
       THEN SensorOutcome("BusError", <<r.val, 0, 0, 0>>, <<r.tx>>, regs)
       ELSE IF ~g.ok
       THEN SensorOutcome("BusError", <<r.val, g.val, 0, 0>>, <<r.tx, g.tx>>, regs)
       ELSE IF ~b.ok
       THEN SensorOutcome("BusError", <<r.val, g.val, b.val, 0>>,
                          <<r.tx, g.tx, b.tx>>, regs)
       ELSE SensorOutcome(IF c.ok THEN "ok" ELSE "BusError",
                          <<r.val, g.val, b.val, c.val>>,
                          <<r.tx, g.tx, b.tx, c.tx>>, regs)

NoSensorCall == [op |-> "none", arg |-> 0, err |-> "ok", result |-> <<>>, bus |-> <<>>]

\* Inputs of the sensor operations.
RawSamples == { <<513, 4660, 255, 128>>, <<65535, 0, 1, 256>> }

GainArgs == {1, 4, 16, 60, 64, 0, 2, 61}

CycleArgs == {1, 2, 100, 255, 256, 0, 257, -1}

AllCycleArgs == 0..257

GainOrders == { <<1, 4, 16, 60, 64>>, <<64, 60, 16, 4, 1>>, <<16, 64, 1, 60, 4>> }

WriteFaults == {NoBusFault, BusFault(1, "untouched")}

EnableFaults == WriteFaults \cup {BusFault(2, "untouched")}

ReadFaults == {NoBusFault, BusFault(1, "untouched"), BusFault(1, "partial")}

RawFaults ==
    {NoBusFault} \cup {BusFault(k, b) : k \in 1..4, b \in {"untouched", "partial"}}

\* sensor.live: this build's ColourSensor is the one of tcs3472x.go
SensorIdle ==
    [live |-> FALSE, regs |-> Device(<<0, 0, 0, 0>>), last |-> NoSensorCall]

SensorStart(sample) == [live |-> TRUE, regs |-> Device(sample), last |-> NoSensorCall]

SensorInit == sensor \in { SensorStart(s) : s \in RawSamples }

SensorReturns(call, o) ==
    /\ sensor.live
    /\ sensor' = [sensor EXCEPT !.regs = o.regs,
                                !.last = [call EXCEPT !.err = o.err,
                                                      !.result = o.result,
                                                      !.bus = o.bus]]
    /\ UNCHANGED <<matrixVars, codec, rot, mock>>

Enable(enable, fault) ==
    SensorReturns([NoSensorCall EXCEPT !.op = "Enable", !.arg = enable],
                  EnableCall(sensor.regs, enable, fault))

SetGain(gain, fault) ==
    SensorReturns([NoSensorCall EXCEPT !.op = "SetGain", !.arg = gain],
                  SetGainCall(sensor.regs, gain, fault))

GetGain(fault, order) ==
    SensorReturns([NoSensorCall EXCEPT !.op = "GetGain"],
                  GetGainCall(sensor.regs, fault, order))

SetIntegrationCycles(cycles, fault) ==
    SensorReturns([NoSensorCall EXCEPT !.op = "SetIntegrationCycles", !.arg = cycles],
                  SetIntegrationCyclesCall(sensor.regs, cycles, fault))

GetIntegrationCycles(fault) ==
    SensorReturns([NoSensorCall EXCEPT !.op = "GetIntegrationCycles"],
                  GetIntegrationCyclesCall(sensor.regs, fault))

GetRaw(fault) ==
    SensorReturns([NoSensorCall EXCEPT !.op = "GetRaw"],
                  GetRawCall(sensor.regs, fault))

----------------------------------------------------------------------------
(* The fixture-backed colour sensor (part_003).  The I2CInterface it is    *)
(* built on stands in for the device: what its MaxValue and GetRaw return  *)
(* is an input of the construction; its setters store nothing.             *)

GAIN_VALUES == <<1, 4, 16, 60>>

\* a call made on s.i2c
I2CCall(method, arg) == [method |-> method, arg |-> arg]

MockOutcome(err, result, calls) == [err |-> err, result |-> result, i2c |-> calls]

NoMockCall == [op |-> "none", arg |-> 0, err |-> "ok", result |-> <<>>, i2c |-> <<>>]

NoFixture == [maxValue |-> 0, raw |-> <<0, 0, 0, 0>>]

\* this build's ColourSensor is the one of part_003; none constructed yet
MockLive ==
    [live |-> TRUE, constructed |-> FALSE, gainLevel |-> 0, integrationTime |-> 0,
     i2c |-> NoFixture, last |-> NoMockCall]

MockIdle == [MockLive EXCEPT !.live = FALSE]

NewColourSensorCall(gainLevel, integrationTime) ==
    IF gainLevel < 1 \/ gainLevel > 60 \/ integrationTime < 1 \/ integrationTime > 256
    THEN MockOutcome("InvalidArguments", <<>>, <<>>)
    ELSE MockOutcome("ok", <<>>, <<>>)

SetGainLevelCall(gain) ==
    IF \E i \in 1..Len(GAIN_VALUES) : gain = GAIN_VALUES[i]
    THEN MockOutcome("ok", <<>>, <<I2CCall("SetGain", gain)>>)
    ELSE MockOutcome("InvalidGain", <<>>, <<>>)

SetIntegrationTimeCall(cycles) ==
    IF cycles < 1 \/ cycles > 256
    THEN MockOutcome("InvalidIntegrationCycles", <<>>, <<>>)
    ELSE MockOutcome("ok", <<>>, <<I2CCall("SetIntegrationCycles", cycles)>>)

\* s.i2c.MaxValue(s.integrationTime)
MaxRawCall(s) ==
    MockOutcome("ok", <<s.i2c.maxValue>>, <<I2CCall("MaxValue", s.integrationTime)>>)

ScalingCall(s) ==
    LET m == MaxRawCall(s)
    IN MockOutcome("ok", <<m.result[1] \div 256>>, m.i2c)

ColourRawCall(s) == MockOutcome("ok", s.i2c.raw, <<I2CCall("GetRaw", 0)>>)

\* An integer division by zero is a run-time panic.
RGBCall(s) ==
    LET raw == ColourRawCall(s)
        scaling == ScalingCall(s)
        calls == raw.i2c \o scaling.i2c
        by == scaling.result[1]
    IN IF by = 0
       THEN MockOutcome("panic", <<>>, calls)
       ELSE MockOutcome("ok", <<raw.result[1] \div by, raw.result[2] \div by,
                                raw.result[3] \div by>>, calls)

\* Inputs of the fixture-backed sensor.
CtorGains == {1, 4, 16, 60, 2, 0, 61}

CtorCycles == {1, 64, 256, 0, 257}

MaxValues == {1024, 512, 511, 256, 255, 0}

\* raw readings <<red, green, blue, clear>>, among them those the
\* I2CInterface of part_003 returns and a full-scale one
Fixtures ==
    { [maxValue |-> m, raw |-> r] :
        m \in MaxValues,
        r \in { <<255, 128, 64, 32>>, <<128, 64, 32, 255>> } }
    \cup { [maxValue |-> m, raw |-> <<m, 0, m \div 2, m>>] : m \in MaxValues }

MockReturns(call, o) ==
    /\ mock.live
    /\ mock.constructed
    /\ mock' = [mock EXCEPT !.last = [call EXCEPT !.err = o.err,
                                                  !.result = o.result,
                                                  !.i2c = o.i2c]]
    /\ UNCHANGED <<matrixVars, codec, rot, sensor>>

NewColourSensor(gainLevel, integrationTime, i2c) ==
    /\ mock.live
    /\ ~mock.constructed
    /\ LET o == NewColourSensorCall(gainLevel, integrationTime)
           call == [NoMockCall EXCEPT !.op = "NewColourSensor",
                                      !.arg = <<gainLevel, integrationTime>>,
                                      !.err = o.err]
       IN mock' = IF o.err = "ok"
                  THEN [mock EXCEPT !.constructed = TRUE,
                                    !.gainLevel = gainLevel,
                                    !.integrationTime = integrationTime,
                                    !.i2c = i2c,
                                    !.last = call]
                  ELSE [mock EXCEPT !.last = call]
    /\ UNCHANGED <<matrixVars, codec, rot, sensor>>

SetGainLevel(gain) ==
    MockReturns([NoMockCall EXCEPT !.op = "SetGainLevel", !.arg = gain],
                SetGainLevelCall(gain))

SetIntegrationTime(cycles) ==
    MockReturns([NoMockCall EXCEPT !.op = "SetIntegrationTime", !.arg = cycles],
                SetIntegrationTimeCall(cycles))

MaxRaw ==
    MockReturns([NoMockCall EXCEPT !.op = "MaxRaw"], MaxRawCall(mock))

RGB ==
    MockReturns([NoMockCall EXCEPT !.op = "RGB"], RGBCall(mock))

----------------------------------------------------------------------------
(* The matrix operations as steps of the program.                          *)

SuccessfulWrite(call) ==
    /\ call.op \in {"MatrixSetPixel", "MatrixSetPixels"}
    /\ call.err = "ok"

\* Book-keeping common to every call: the call record, the call before it,
\* the framebuffer, the handles left open and the number of writing calls.
Returns(call, o) ==
    /\ last' = [call EXCEPT !.rot = Rotation, !.err = o.err,
                            !.result = o.result, !.io = o.io]
    /\ prev' = IF SuccessfulWrite(last) THEN [last EXCEPT !.io = NoIO] ELSE NoCall
    /\ fb' = o.fb
    /\ openHandles' = openHandles + o.io.opened - o.io.closes
    /\ nWrites' = IF o.fb # fb THEN nWrites + 1 ELSE nWrites
    /\ UNCHANGED <<Rotation, PixMap, codec, rot, sensorVars>>

\* sh.Rotation = r.  The call records describe calls made under the current
\* value of Rotation, so an assignment starts them afresh.
SetRotation(r) ==
    /\ Rotation' = r
    /\ last' = NoCall
    /\ prev' = NoCall
    /\ UNCHANGED <<fb, PixMap, nWrites, openHandles, codec, rot, sensorVars>>

MatrixGetPixel(x, y, fault) ==
    \E o \in {MatrixGetPixelCall(fb, PixMap, Rotation, x, y, fault)} :
        Returns([NoCall EXCEPT !.op = "MatrixGetPixel", !.x = x, !.y = y], o)

MatrixSetPixel(x, y, colour, fault) ==
    /\ nWrites < MaxWrites
    /\ \E o \in {MatrixSetPixelCall(fb, PixMap, Rotation, x, y, colour, fault)} :
        Returns([NoCall EXCEPT !.op = "MatrixSetPixel", !.x = x, !.y = y,
                               !.colour = colour], o)

MatrixSetPixels(pixelList, fault) ==
    /\ nWrites < MaxWrites
    /\ \E o \in {MatrixSetPixelsCall(fb, PixMap, Rotation, pixelList, fault)} :
        Returns([NoCall EXCEPT !.op = "MatrixSetPixels", !.pixels = pixelList], o)

MatrixGetPixels(fault) ==
    \E o \in {MatrixGetPixelsCall(fb, PixMap, Rotation, fault)} :
        Returns([NoCall EXCEPT !.op = "MatrixGetPixels"], o)

Clear(colour, fault) ==
    /\ nWrites < MaxWrites
    /\ \E o \in {ClearCall(fb, PixMap, Rotation, colour, fault)} :
        Returns([NoCall EXCEPT !.op = "Clear", !.args = colour], o)

\* NewSenseHat: initializePixMap has run; no call has been made yet.
Init ==
    /\ fb = OldFrame
    /\ Rotation = 0
    /\ PixMap = initializePixMap
    /\ last = NoCall
    /\ prev = NoCall
    /\ nWrites = 0
    /\ openHandles = 0
    /\ codec = CodecIdle
    /\ rot = RotIdle
    /\ sensor = SensorIdle
    /\ mock = MockIdle

Next ==
    \/ \E r \in RotationValues : SetRotation(r)
    \/ \E p \in Points, f \in PixelFaults : MatrixGetPixel(p[1], p[2], f)
    \/ \E p \in Points, c \in PixelColours, f \in PixelFaults :
            MatrixSetPixel(p[1], p[2], c, f)
    \/ \E p \in PixelLists, f \in FrameFaults : MatrixSetPixels(p, f)
    \/ \E f \in FrameFaults : MatrixGetPixels(f)
    \/ \E a \in ClearArgs, f \in FrameFaults : Clear(a, f)

Spec == Init /\ [][Next]_vars

----------------------------------------------------------------------------
(* The codec and the rotation runs as specifications of their own.         *)

InitCodec ==
    /\ fb = OldFrame
    /\ Rotation = 0
    /\ PixMap = initializePixMap
    /\ last = NoCall
    /\ prev = NoCall
    /\ nWrites = 0
    /\ openHandles = 0
    /\ CodecInit
    /\ rot = RotIdle
    /\ sensor = SensorIdle
    /\ mock = MockIdle

NextCodec ==
    \/ CodecPack /\ UNCHANGED <<matrixVars, rot, sensorVars>>
    \/ CodecUnpack /\ UNCHANGED <<matrixVars, rot, sensorVars>>
    \/ CodecRepack /\ UNCHANGED <<matrixVars, rot, sensorVars>>

SpecCodec == InitCodec /\ [][NextCodec]_vars

InitRot ==
    /\ fb = OldFrame
    /\ Rotation = 0
    /\ PixMap = initializePixMap
    /\ last = NoCall
    /\ prev = NoCall
    /\ nWrites = 0
    /\ openHandles = 0
    /\ codec = CodecIdle
    /\ RotInit
    /\ sensor = SensorIdle
    /\ mock = MockIdle

NextRot ==
    \E d \in RotDegrees : RotateStep(d) /\ UNCHANGED <<matrixVars, codec, sensorVars>>

SpecRot == InitRot /\ [][NextRot]_vars

----------------------------------------------------------------------------
(* MatrixGetPixel of part_002, where PixMap is a list of flat maps indexed *)
(* by Rotation and by y*8+x, and NewSenseHat leaves it empty.              *)

MaxOpenHandles == 3

\* os.OpenFile succeeded; no Close is deferred or called
LeakedIO == [NoIO EXCEPT !.opens = 1, !.opened = 1]

MatrixGetPixelFlatCall(fbv, pm, r, x, y, fault) ==
    IF x < 0 \/ x > 7 \/ y < 0 \/ y > 7
    THEN Outcome("OutOfRange", Black, NoIO, fbv)
    ELSE IF fault.kind = "open"
    THEN Outcome("OpenFailed", Black, [NoIO EXCEPT !.opens = 1], fbv)
    ELSE IF r < 0 \/ r >= Cardinality(DOMAIN pm)
    THEN Outcome("InvalidRotation", Black, LeakedIO, fbv)
    ELSE LET offset == pm[r][y * 8 + x] * 2
             ioSeek == [LeakedIO EXCEPT !.seeks = <<offset>>]
             ioRead == [ioSeek EXCEPT !.reads = <<offset>>]
         IN  IF fault.kind = "seek"
             THEN Outcome("SeekFailed", Black, ioSeek, fbv)
             ELSE IF fault.kind = "io"
             THEN Outcome("ReadFailed", Black, ioRead, fbv)
             ELSE Outcome("ok", UnpackRGB565(ReadWord(fbv, offset)), ioRead, fbv)

\* The values a client gives the exported field PixMap: none, or the one
\* map of the unrotated display.
FlatTables == { [r \in {} |-> <<>>], [r \in {0} |-> [i \in 0..(N * N - 1) |-> i]] }

AssignPixMap(pm) ==
    /\ PixMap' = pm
    /\ last' = NoCall
    /\ prev' = NoCall
    /\ UNCHANGED <<fb, Rotation, nWrites, openHandles, codec, rot, sensorVars>>

MatrixGetPixelFlat(x, y, fault) ==
    /\ openHandles < MaxOpenHandles
    /\ \E o \in {MatrixGetPixelFlatCall(fb, PixMap, Rotation, x, y, fault)} :
        Returns([NoCall EXCEPT !.op = "MatrixGetPixel", !.x = x, !.y = y], o)

----------------------------------------------------------------------------
(* The colour sensor as a specification of its own: a build has one of the *)
(* two ColourSensor types, and every run is of one of them.                *)

MatrixIdle ==
    /\ fb = OldFrame
    /\ Rotation = 0
    /\ PixMap = initializePixMap
    /\ last = NoCall
    /\ prev = NoCall
    /\ nWrites = 0
    /\ openHandles = 0
    /\ codec = CodecIdle
    /\ rot = RotIdle

InitSensor ==
    /\ MatrixIdle
    /\ \/ SensorInit /\ mock = MockIdle
       \/ sensor = SensorIdle /\ mock = MockLive

NextSensor ==
    \/ \E e \in BOOLEAN, f \in EnableFaults : Enable(e, f)
    \/ \E g \in GainArgs, f \in WriteFaults : SetGain(g, f)
    \/ \E f \in ReadFaults, o \in GainOrders : GetGain(f, o)
    \/ \E c \in CycleArgs, f \in WriteFaults : SetIntegrationCycles(c, f)
    \/ \E f \in ReadFaults : GetIntegrationCycles(f)
    \/ \E f \in RawFaults : GetRaw(f)
    \/ \E g \in CtorGains, c \in CtorCycles, i \in Fixtures : NewColourSensor(g, c, i)
    \/ \E g \in GainArgs : SetGainLevel(g)
    \/ \E c \in CycleArgs : SetIntegrationTime(c)
    \/ MaxRaw
    \/ RGB

SpecSensor == InitSensor /\ [][NextSensor]_vars

\* The integration-time register over the whole range of cycle counts.
InitCycles ==
    /\ MatrixIdle
    /\ sensor = SensorStart(<<513, 4660, 255, 128>>)
    /\ mock = MockIdle

NextCycles ==
    \/ \E c \in AllCycleArgs : SetIntegrationCycles(c, NoBusFault)
    \/ \E c \in CycleArgs : SetIntegrationCycles(c, BusFault(1, "untouched"))
    \/ \E f \in ReadFaults : GetIntegrationCycles(f)

SpecCycles == InitCycles /\ [][NextCycles]_vars

\* The SenseHat of part_002.
InitFlat ==
    /\ fb = OldFrame
    /\ Rotation = 0
    /\ PixMap \in { t \in FlatTables : DOMAIN t = {} }
    /\ last = NoCall
    /\ prev = NoCall
    /\ nWrites = 0
    /\ openHandles = 0
    /\ codec = CodecIdle
    /\ rot = RotIdle
    /\ sensor = SensorIdle
    /\ mock = MockIdle

NextFlat ==
    \/ \E r \in RotationValues : SetRotation(r)
    \/ \E t \in FlatTables : AssignPixMap(t)
    \/ \E p \in Points, f \in PixelFaults : MatrixGetPixelFlat(p[1], p[2], f)

SpecFlat == InitFlat /\ [][NextFlat]_vars

----------------------------------------------------------------------------
(* Properties of the codec.                                                *)

\* C4: unpacking a packed colour gives back each channel within the
\* quantization step: at most 7 off on red and blue, at most 3 off on green.
C4_RoundTripError ==
    (codec.kind = "colour" /\ codec.step >= 2) =>
        /\ Abs(codec.unpacked.R - codec.colour.R) <= 7
        /\ Abs(codec.unpacked.G - codec.colour.G) <= 3
        /\ Abs(codec.unpacked.B - codec.colour.B) <= 7

\* A colour whose three channels all come back off by the full step.
C4_Witness ==
    /\ codec.kind = "colour"
    /\ codec.step >= 2
    /\ codec.colour = Colour(7, 7, 7)
    /\ Abs(codec.unpacked.R - codec.colour.R) = 7
    /\ Abs(codec.unpacked.G - codec.colour.G) = 3
    /\ Abs(codec.unpacked.B - codec.colour.B) = 7

\* C5: packing what was unpacked gives the packed word again, both for a
\* word that came from packing a colour and for any 16-bit word.
C5_RepackIdempotent ==
    (codec.step = 3) => codec.repacked = codec.word

\* A word with alternating bits, unpacked to a colour that is not grey and
\* packed again.
C5_Witness ==
    /\ codec.kind = "word"
    /\ codec.step = 3
    /\ codec.word = 43690
    /\ codec.unpacked.R # codec.unpacked.B
    /\ codec.repacked = 43690

----------------------------------------------------------------------------
(* Properties of the orientation maps.                                     *)

Cells == 0..(N * N - 1)

\* 64 cells holding all of the 64 values 0..63: each exactly once
IsPermutation(g) ==
    /\ DOMAIN g = Index
    /\ \A i \in Index : DOMAIN g[i] = Index
    /\ { g[ij[1]][ij[2]] : ij \in Index \X Index } = Cells

\* C6: in every reachable state the stored map of each supported rotation
\* holds every integer of 0..63 exactly once, and the map of rotation 0 has
\* row * 8 + col at [row][col].
C6_MapsArePermutations ==
    /\ DOMAIN PixMap = SupportedRotations
    /\ \A r \in SupportedRotations : IsPermutation(PixMap[r])
    /\ \A row \in Index, col \in Index : PixMap[0][row][col] = row * 8 + col

\* The maps as they are after a write and a whole-frame read under rotation 90.
C6_Witness ==
    /\ nWrites = 1
    /\ Rotation = 90
    /\ last.op = "MatrixGetPixels"
    /\ last.err = "ok"
    /\ PixMap[90][0][7] = 0

Sum(steps) == IF steps = <<>> THEN 0
              ELSE LET S[i \in 0..Len(steps)] == IF i = 0 THEN 0 ELSE S[i - 1] + steps[i]
                   IN  S[Len(steps)]

\* C7: four rotations by 90 give back the grid, two equal one rotation by
\* 180 and three equal one by 270; more generally any run of rotations that
\* adds up to a multiple of 360 gives back the grid, and one that adds up to
\* d modulo 360 equals a single rotation by d.
C7_RotationsCompose ==
    /\ rot.steps = <<90, 90>> => rot.cur = rotateMatrix(rot.orig, 180)
    /\ rot.steps = <<90, 90, 90>> => rot.cur = rotateMatrix(rot.orig, 270)
    /\ rot.steps = <<90, 90, 90, 90>> => rot.cur = rot.orig
    /\ rot.steps # <<>> =>
        LET d == Sum(rot.steps) % 360
        IN  rot.cur = IF d = 0 THEN rot.orig ELSE rotateMatrix(rot.orig, d)

\* The identity map rotated four times by 90, back where it started after
\* having been somewhere else.
C7_Witness ==
    /\ rot.orig = pixMap0
    /\ rot.steps = <<90, 90, 90, 90>>
    /\ rot.cur = pixMap0
    /\ rotateMatrix(rot.orig, 90) # rot.orig

----------------------------------------------------------------------------
(* Properties of the matrix operations.                                    *)

InRange(x, y) == x \in Index /\ y \in Index

Quantized(c) == UnpackRGB565(PackRGB565(c))

\* Colours tried at every cell: a saturated one, one that every channel
\* quantizes, and black.
ProbeColours == PixelColours \cup {Colour(255, 130, 7), Black}

\* C1: a successful MatrixSetPixel(x, y, c) followed at once by
\* MatrixGetPixel(x, y), under an unchanged supported rotation, returns
\* unpack(pack(c)).  Stated of the two calls the program made, and, in the
\* states where a rotation has just been chosen, of every cell and probe colour.
C1_SetThenGet ==
    /\ ( /\ last.op = "MatrixGetPixel"
         /\ last.err = "ok"
         /\ prev.op = "MatrixSetPixel"
         /\ prev.x = last.x
         /\ prev.y = last.y )
       => last.result = Quantized(prev.colour)
    /\ (last = NoCall /\ Rotation \in SupportedRotations) =>
          \A x \in Index, y \in Index, c \in ProbeColours :
              LET set == MatrixSetPixelCall(fb, PixMap, Rotation, x, y, c, NoFault)
                  get == MatrixGetPixelCall(set.fb, PixMap, Rotation, x, y, NoFault)
              IN  set.err = "ok" /\ get.err = "ok" /\ get.result = Quantized(c)

\* Pixel (3, 5) written and read back under rotation 270; the colour read
\* is the quantized one, not the one written.
C1_Witness ==
    /\ last.op = "MatrixGetPixel"
    /\ last.err = "ok"
    /\ prev.op = "MatrixSetPixel"
    /\ <<prev.x, prev.y>> = <<3, 5>>
    /\ <<last.x, last.y>> = <<3, 5>>
    /\ Rotation = 270
    /\ last.result = Quantized(prev.colour)
    /\ last.result # prev.colour

\* The physical cell that logical cell (row, col) is displayed at, by the
\* geometry of each rotation.
PhysicalCell(r, row, col) ==
    CASE r = 0   -> row * 8 + col
      [] r = 90  -> (7 - col) * 8 + row
      [] r = 180 -> (7 - row) * 8 + (7 - col)
      [] r = 270 -> col * 8 + (7 - row)

\* C2: after a successful MatrixSetPixels(p), MatrixGetPixels returns 64
\* colours, the i-th being unpack(pack(p[i])), and MatrixGetPixel(x, y)
\* returns the one of index y * 8 + x, whatever the supported rotation; the
\* rotation decides only which physical cell holds each colour.
C2_RotationIsAddressingOnly ==
    /\ (last.op = "MatrixGetPixels" /\ last.err = "ok" /\ prev.op = "MatrixSetPixels") =>
          /\ Len(last.result) = 64
          /\ \A i \in 1..64 : last.result[i] = Quantized(prev.pixels[i])
    /\ (last.op = "MatrixGetPixel" /\ last.err = "ok" /\ prev.op = "MatrixSetPixels") =>
          last.result = Quantized(prev.pixels[last.y * 8 + last.x + 1])
    /\ (last.op = "MatrixSetPixels" /\ last.err = "ok") =>
          \A row \in Index, col \in Index :
              ReadWord(fb, 2 * PhysicalCell(last.rot, row, col))
                  = PackRGB565(last.pixels[row * 8 + col + 1])

\* A frame written and read back whole under rotation 180, where logical
\* cell 0 is physical cell 63.
C2_Witness ==
    /\ last.op = "MatrixGetPixels"
    /\ last.err = "ok"
    /\ prev.op = "MatrixSetPixels"
    /\ Rotation = 180
    /\ last.result[1] = Quantized(prev.pixels[1])
    /\ ReadWord(fb, 2 * 63) = PackRGB565(prev.pixels[1])
    /\ ReadWord(fb, 0) # PackRGB565(prev.pixels[1])

DeviceErrors == {"OpenFailed", "SeekFailed", "ReadFailed", "WriteFailed"}

\* C3: Clear with no argument or with (r, g, b), on a working device under
\* a supported rotation, succeeds and leaves every logical cell holding the
\* colour.
C3_ClearFills ==
    ( /\ last.op = "Clear"
      /\ Len(last.args) \in {0, 3}
      /\ last.rot \in SupportedRotations
      /\ last.err \notin DeviceErrors )
    => /\ last.err = "ok"
       /\ \A x \in Index, y \in Index :
            LET c == IF last.args = <<>> THEN Black
                     ELSE Colour(last.args[1], last.args[2], last.args[3])
            IN  MatrixGetPixelCall(fb, PixMap, Rotation, x, y, NoFault).result = Quantized(c)

InvalidArguments(call) ==
    \/ call.op \in {"MatrixGetPixel", "MatrixSetPixel"} /\ ~InRange(call.x, call.y)
    \/ call.op = "MatrixSetPixels" /\ Len(call.pixels) # 64

\* C8: a MatrixGetPixel or MatrixSetPixel with x or y outside 0..7, and a
\* MatrixSetPixels with a list not of length 64, returns its validation
\* error, touches the device in no way, and leaves the framebuffer, the
\* Rotation field and the maps as they were.
C8_InvalidArgumentsFailFast ==
    [][ InvalidArguments(last') =>
            /\ last'.err = IF last'.op = "MatrixSetPixels" THEN "InvalidLength"
                           ELSE "OutOfRange"
            /\ last'.io = NoIO
            /\ fb' = fb
            /\ Rotation' = Rotation
            /\ PixMap' = PixMap
            /\ openHandles' = openHandles ]_vars

\* MatrixGetPixel(8, 0) refused after the framebuffer had been written to.
C8_Witness ==
    /\ last.op = "MatrixGetPixel"
    /\ <<last.x, last.y>> = <<8, 0>>
    /\ last.err = "OutOfRange"
    /\ last.io = NoIO
    /\ nWrites = 1
    /\ fb # OldFrame

ValidArguments(call) ==
    \/ call.op \in {"MatrixGetPixel", "MatrixSetPixel"} /\ InRange(call.x, call.y)
    \/ call.op = "MatrixSetPixels" /\ Len(call.pixels) = 64
    \/ call.op = "MatrixGetPixels"

\* C9: under a Rotation outside {0, 90, 180, 270} every matrix operation
\* with valid arguments fails with the invalid-rotation error without the
\* device being opened, sought, read or written.
C9_InvalidRotationNoIO ==
    (ValidArguments(last) /\ last.rot \notin SupportedRotations) =>
        /\ last.err = "InvalidRotation"
        /\ last.io = NoIO

FrameFailed(call) ==
    /\ call.op = "MatrixSetPixels"
    /\ call.err \in {"SeekFailed", "WriteFailed"}

\* The logical index at which a failed MatrixSetPixels stopped: the last one
\* it sought.
FailedIndex(call) == Len(call.io.seeks) - 1

\* C10: a MatrixSetPixels whose seek or write fails at logical index k
\* returns at once: it has sought the cells of indices 0..k in that order,
\* each once, and written no cell after k; the cells of indices 0..k-1 hold
\* the new colours and those of indices k+1..63 what they held before.
C10_FramePartialOnFailure ==
    [][ FrameFailed(last') =>
            LET k == FailedIndex(last')
                pmap == PixMap[Rotation]
                pix == last'.pixels
            IN  /\ k \in 0..63
                /\ last'.io.seeks = [i \in 1..(k + 1) |-> CellOffset(pmap, i - 1)]
                /\ last'.io.writes =
                       [i \in 1..(IF last'.err = "WriteFailed" THEN k + 1 ELSE k) |->
                            CellOffset(pmap, i - 1)]
                /\ \A i \in 0..(k - 1) :
                       ReadWord(fb', CellOffset(pmap, i)) = PackRGB565(pix[i + 1])
                /\ \A i \in (k + 1)..63 :
                       ReadWord(fb', CellOffset(pmap, i)) = ReadWord(fb, CellOffset(pmap, i)) ]_vars

\* A frame whose write fails at index 5 under rotation 90: five cells are
\* new, cell 6 onwards still shows the old frame.
C10_Witness ==
    /\ FrameFailed(last)
    /\ last.err = "WriteFailed"
    /\ FailedIndex(last) = 5
    /\ Rotation = 90
    /\ ReadWord(fb, CellOffset(PixMap[90], 4)) = PackRGB565(last.pixels[5])
    /\ ReadWord(fb, CellOffset(PixMap[90], 4)) # ReadWord(OldFrame, CellOffset(PixMap[90], 4))
    /\ ReadWord(fb, CellOffset(PixMap[90], 6)) = ReadWord(OldFrame, CellOffset(PixMap[90], 6))
    /\ ReadWord(fb, CellOffset(PixMap[90], 6)) # PackRGB565(last.pixels[7])

----------------------------------------------------------------------------
(* The colour sensor.                                                      *)

BusWrites(bus) == SelectSeq(bus, LAMBDA e : e.kind = "tx")

\* C11: Enable(true) puts exactly two writes to the enable register on the
\* bus, first 0x01 alone and, after the warm-up wait, 0x03; when the first
\* write fails its error is returned and the second write is not issued;
\* Enable(false) puts the single write of 0x00 on the bus.
C11_EnableSequence ==
    sensor.last.op = "Enable" =>
        LET call == sensor.last
            txs == BusWrites(call.bus)
        IN  IF call.arg
            THEN /\ Len(txs) >= 1
                 /\ txs[1].w = <<128, 1>>
                 /\ call.bus[1] = txs[1]
                 /\ IF txs[1].ok
                    THEN /\ Len(call.bus) = 3
                         /\ call.bus[2].kind = "sleep"
                         /\ call.bus[3] = BusTx(<<128, 3>>, 0, call.err = "ok")
                    ELSE /\ Len(call.bus) = 1
                         /\ call.err # "ok"
                 /\ call.err = "ok" => sensor.regs[128] = 3
            ELSE /\ call.bus = << BusTx(<<128, 0>>, 0, call.err = "ok") >>
                 /\ call.err = "ok" => sensor.regs[128] = 0

\* Enable(true) went through both writes.
C11_Witness ==
    /\ sensor.last.op = "Enable"
    /\ sensor.last.arg
    /\ sensor.last.err = "ok"
    /\ Len(sensor.last.bus) = 3
    /\ sensor.regs[ENABLE_REG] = ON

\* C12: when one of the four channel reads of GetRaw fails the later reads
\* are not made, an error is returned, and the channel values returned
\* with it carry no data of the reads made before.
C12_NoPartialResult ==
    (sensor.last.op = "GetRaw" /\ sensor.last.err # "ok") =>
        /\ \A i \in 1..(Len(sensor.last.bus) - 1) : sensor.last.bus[i].ok
        /\ ~sensor.last.bus[Len(sensor.last.bus)].ok
        /\ sensor.last.result = <<0, 0, 0, 0>>

C15_CyclesRoundTrip ==
    [][ /\ ( /\ sensor'.last.op = "SetIntegrationCycles"
             /\ sensor'.last.arg \in 1..256 ) =>
                LET byte == (256 - sensor'.last.arg) % 256
                IN  /\ sensor'.last.bus =
                            << BusTx(<<129, byte>>, 0, sensor'.last.err = "ok") >>
                    /\ sensor'.last.err = "ok" => sensor'.regs[129] = byte
        /\ ( /\ sensor.last.op = "SetIntegrationCycles"
             /\ sensor.last.err = "ok"
             /\ sensor'.last.op = "GetIntegrationCycles"
             /\ sensor'.last.err = "ok" ) =>
                sensor'.last.result = <<sensor.last.arg>> ]_vars

\* GetIntegrationCycles() returned 256, read from the register holding 0.
C15_Witness ==
    /\ sensor.last.op = "GetIntegrationCycles"
    /\ sensor.last.err = "ok"
    /\ sensor.last.result = <<256>>
    /\ sensor.regs[ATIME_REG] = 0

\* C16: SetGain and SetGainLevel with a gain that is not supported, and
\* SetIntegrationCycles and SetIntegrationTime with cycles outside 1..256,
\* return an error, make no bus write, and leave the sensor's fields and
\* the device registers as they were.
C16_SettersValidateFirst ==
    [][ /\ ( \/ /\ sensor'.last.op = "SetGain"
                /\ sensor'.last.arg \notin {1, 4, 16, 60, 64}
             \/ /\ sensor'.last.op = "SetIntegrationCycles"
                /\ sensor'.last.arg \notin 1..256 ) =>
                /\ sensor'.last.err \notin {"ok", "BusError"}
                /\ sensor'.last.bus = <<>>
                /\ sensor'.regs = sensor.regs
        /\ ( \/ /\ mock'.last.op = "SetGainLevel"
                /\ mock'.last.arg \notin {1, 4, 16, 60}
             \/ /\ mock'.last.op = "SetIntegrationTime"
                /\ mock'.last.arg \notin 1..256 ) =>
                /\ mock'.last.err # "ok"
                /\ mock'.last.i2c = <<>>
                /\ mock'.gainLevel = mock.gainLevel
                /\ mock'.integrationTime = mock.integrationTime
                /\ mock'.i2c = mock.i2c ]_vars

\* SetIntegrationCycles(257) refused on a device whose registers had been
\* written before.
C16_Witness ==
    /\ sensor.last.op = "SetIntegrationCycles"
    /\ sensor.last.arg = 257
    /\ sensor.last.err = "InvalidIntegrationCycles"
    /\ sensor.last.bus = <<>>
    /\ sensor.regs[ATIME_REG] # UInt8Max

\* C17: after a successful SetIntegrationTime(c) the sensor's integration
\* cycle count is c and MaxRaw() is computed from c; after a successful
\* SetGainLevel(g) the sensor's gain level is g.
C17_CacheTracksSetters ==
    /\ (mock.last.op = "SetIntegrationTime" /\ mock.last.err = "ok") =>
            /\ mock.integrationTime = mock.last.arg
            /\ MaxRawCall(mock).i2c = << I2CCall("MaxValue", mock.last.arg) >>
    /\ (mock.last.op = "SetGainLevel" /\ mock.last.err = "ok") =>
            mock.gainLevel = mock.last.arg

\* C18: GetGain returns the lowest gain whose wire code is the value of
\* the control register, so 60 and never 64 for the code 0x03.
C18_GainLookupLowest ==
    (sensor.last.op = "GetGain" /\ sensor.last.err = "ok") =>
        LET code == sensor.regs[CONTROL_REG]
            gains == {g \in {1, 4, 16, 60, 64} : gainLevels[g] = code}
        IN  sensor.last.result = << CHOOSE g \in gains : \A h \in gains : g <= h >>

----------------------------------------------------------------------------
(* Rotation and the framebuffer handle.                                    *)

C20_HandlesReleased ==
    /\ openHandles = 0
    /\ last.io.closes = last.io.opened

\* C21: a sensor that NewColourSensor has constructed has a gain level in
\* {1, 4, 16, 60} and an integration cycle count in 1..256, after any
\* sequence of setter calls; a NewColourSensor call with a gain outside the
\* set or cycles outside 1..256 returns an error.
C21_SensorStateValid ==
    /\ mock.constructed =>
            /\ mock.gainLevel \in {1, 4, 16, 60}
            /\ mock.integrationTime \in 1..256
    /\ ( /\ mock.last.op = "NewColourSensor"
         /\ \/ mock.last.arg[1] \notin {1, 4, 16, 60}
            \/ mock.last.arg[2] \notin 1..256 ) =>
            /\ mock.last.err # "ok"
            /\ ~mock.constructed

\* C22: a successful MatrixSetPixel(x, y, c) changes only the bytes 2i and
\* 2i+1 of the cell i = map[rotation][y][x], which then hold the packed
\* colour low byte first, with 2i within 0..126; every other byte, Rotation
\* and the maps are as before; MatrixGetPixel and MatrixGetPixels change no
\* byte, nor Rotation, nor a map.
C22_SetPixelFrame ==
    [][ /\ (last'.op = "MatrixSetPixel" /\ last'.err = "ok") =>
                LET i == PixMap[Rotation][last'.y][last'.x]
                    w == PackRGB565(last'.colour)
                IN  /\ 2 * i \in 0..126
                    /\ fb'[2 * i] = w % 256
                    /\ fb'[2 * i + 1] = w \div 256
                    /\ \A o \in Offsets \ {2 * i, 2 * i + 1} : fb'[o] = fb[o]
                    /\ last'.io.seeks = <<2 * i>>
                    /\ Rotation' = Rotation
                    /\ PixMap' = PixMap
        /\ last'.op \in {"MatrixGetPixel", "MatrixGetPixels"} =>
                /\ fb' = fb
                /\ Rotation' = Rotation
                /\ PixMap' = PixMap ]_vars

\* MatrixSetPixel(3, 5, c) has written its cell under Rotation 90.
C22_Witness ==
    /\ last.op = "MatrixSetPixel"
    /\ last.err = "ok"
    /\ <<last.x, last.y>> = <<3, 5>>
    /\ Rotation = 90
    /\ ReadWord(fb, PixMap[90][5][3] * 2) = PackRGB565(last.colour)
    /\ fb # OldFrame

====
